---- MODULE Spec2Model ----
(***************************************************************************)
(* Reversi: the board rules engine (board.py) and the alpha-beta agent     *)
(* (game.py), as a state machine over one Board object.                    *)
(*                                                                         *)
(* A cell holds "W", "B" or "None" (Python's None).  board[x][y] is the    *)
(* list of lists self.board.  Exceptions are modelled as the `exc` field   *)
(* of an operation's result: "none" when the call returned normally.       *)
(***************************************************************************)
EXTENDS Integers, Sequences, FiniteSets, TLC

VARIABLES board, start, classBoard, nmoves, last, game

vars == <<board, start, classBoard, nmoves, last, game>>

\* ----------------------------------------------------------------- bounds
MaxMoves == 2        \* accepted Board.move calls explored per behaviour
MaxDepth == 1        \* search depths 0..MaxDepth given to AlphaBeta
Overshoot == 1       \* coordinates are tried in -Overshoot .. 7+Overshoot

\* -------------------------------------------------------------- constants
N == 8               \* board.py:37, the grid is 8 x 8

WHITE == "W"
BLACK == "B"
None == "None"
Colors == {WHITE, BLACK}
Cell == {WHITE, BLACK, None}
Idx == 0 .. (N - 1)

\* ------------------------------------------------------------- Coordinate
Coordinate(x, y) == [x |-> x, y |-> y]

Add(a, b) == Coordinate(a.x + b.x, a.y + b.y)

AllCells == {Coordinate(x, y) : x \in Idx, y \in Idx}

\* A string is the sequence of the code points of its characters.
OrdA == 97           \* ord("a")
Ord0 == 48           \* the character "0": int() accepts "0" .. "9"

\* mutant: the row digit is taken as y itself
from_string_NoOffset(s) ==
  IF Len(s) < 1 THEN [exc |-> "IndexError", val |-> Coordinate(0, 0)]
  ELSE IF Len(s) < 2 THEN [exc |-> "IndexError", val |-> Coordinate(0, 0)]
  ELSE IF s[2] < Ord0 \/ s[2] > Ord0 + 9
    THEN [exc |-> "ValueError", val |-> Coordinate(0, 0)]
  ELSE [exc |-> "none", val |-> Coordinate(s[1] - OrdA, s[2] - Ord0)]

\* Coordinate.from_string: s[0] and s[1] raise IndexError on a shorter
\* string, int() raises ValueError on a character that is no digit
from_string(s) ==
  IF Len(s) < 1 THEN [exc |-> "IndexError", val |-> Coordinate(0, 0)]
  ELSE IF Len(s) < 2 THEN [exc |-> "IndexError", val |-> Coordinate(0, 0)]
  ELSE IF s[2] < Ord0 \/ s[2] > Ord0 + 9
    THEN [exc |-> "ValueError", val |-> Coordinate(0, 0)]
  ELSE [exc |-> "none", val |-> Coordinate(s[1] - OrdA, (s[2] - Ord0) - 1)]

\* str(n) of an integer: "-" (code 45) and the decimal digits
RECURSIVE Decimal(_)
Decimal(n) ==
  IF n < 0 THEN <<45>> \o Decimal(0 - n)
  ELSE IF n < 10 THEN <<Ord0 + n>>
  ELSE Decimal(n \div 10) \o <<Ord0 + (n % 10)>>

\* Coordinate.to_string
to_string(c) == <<OrdA + c.x>> \o Decimal(c.y + 1)

\* the two-character strings that are tried as input
Letters == (OrdA - Overshoot) .. (OrdA + N - 1 + Overshoot)
Digits == (Ord0 - Overshoot) .. (Ord0 + 9 + Overshoot)
Strings == {<<l, g>> : l \in Letters, g \in Digits}

Coords == {Coordinate(x, y) : x \in (0 - Overshoot) .. (N - 1 + Overshoot),
                              y \in (0 - Overshoot) .. (N - 1 + Overshoot)}

\* the eight direction vectors, in the order of the list in the source
Directions ==
  << Coordinate(1, 0), Coordinate(0, 1), Coordinate(-1, 0), Coordinate(0, -1),
     Coordinate(1, 1), Coordinate(-1, 1), Coordinate(1, -1), Coordinate(-1, -1) >>

\* ------------------------------------------------------------------ Board
EmptyGrid == [x \in Idx |-> [y \in Idx |-> None]]

\* Python list indexing: an index i is accepted iff -len <= i < len, and a
\* negative index counts from the end of the list.
IndexOK(i) == (0 - N) <= i /\ i < N
PyIdx(i) == i % N

RaisesIndexError(c) == ~IndexOK(c.x) \/ ~IndexOK(c.y)

GetItem(b, c) == b[PyIdx(c.x)][PyIdx(c.y)]

SetItem(b, c, v) == [b EXCEPT ![PyIdx(c.x)][PyIdx(c.y)] = v]

\* mutant: the four starting discs with the colours exchanged
InitialBoard_Swapped ==
  SetItem(SetItem(SetItem(SetItem(EmptyGrid,
    Coordinate(3, 3), WHITE), Coordinate(3, 4), BLACK),
    Coordinate(4, 3), BLACK), Coordinate(4, 4), WHITE)

\* Board(): d4 = BLACK, d5 = WHITE, e4 = WHITE, e5 = BLACK
InitialBoard ==
  SetItem(SetItem(SetItem(SetItem(EmptyGrid,
    Coordinate(3, 3), BLACK), Coordinate(3, 4), WHITE),
    Coordinate(4, 3), WHITE), Coordinate(4, 4), BLACK)

IsInBounds(c) == 0 <= c.x /\ c.x < N /\ 0 <= c.y /\ c.y < N

\* the cells that __is_valid_move dereferences in "self[i_coord] is not None",
\* the left operand of its first condition, evaluated before __is_in_bounds
FirstRead(c) ==
  IF RaisesIndexError(c) THEN {} ELSE {Coordinate(PyIdx(c.x), PyIdx(c.y))}

Opponent(color) == IF color = BLACK THEN WHITE ELSE BLACK

\* mutant: the scan steps over empty cells instead of stopping at them
RECURSIVE ScanDirection_SkipsEmpty(_, _, _, _)
ScanDirection_SkipsEmpty(b, i, d, color) ==
  IF ~IsInBounds(i) THEN FALSE
  ELSE IF GetItem(b, i) = color THEN TRUE
  ELSE ScanDirection_SkipsEmpty(b, Add(i, d), d, color)

\* the while loop of __is_valid_direction
RECURSIVE ScanDirection(_, _, _, _)
ScanDirection(b, i, d, color) ==
  IF ~IsInBounds(i) THEN FALSE
  ELSE IF GetItem(b, i) = color THEN TRUE
  ELSE IF GetItem(b, i) = None THEN FALSE
  ELSE ScanDirection(b, Add(i, d), d, color)

IsValidDirection(b, i, d, color) ==
  LET j == Add(i, d) IN
    IF ~IsInBounds(j) \/ GetItem(b, j) # Opponent(color) THEN FALSE
    ELSE ScanDirection(b, Add(j, d), d, color)

\* __is_valid_move: the cell is read before the bounds are checked
IsValidMove(b, c, color) ==
  IF RaisesIndexError(c) THEN [exc |-> "IndexError", val |-> FALSE]
  ELSE IF GetItem(b, c) # None \/ ~IsInBounds(c) THEN [exc |-> "none", val |-> FALSE]
  ELSE [exc |-> "none",
        val |-> \E k \in 1 .. Len(Directions) : IsValidDirection(b, c, Directions[k], color)]

GetValidMoves(b, color) == {c \in AllCells : IsValidMove(b, c, color).val}

\* mutant: only the first disc of the line is turned
FlipLoop_OneDisc(b, i, d, color) ==
  IF GetItem(b, i) # color THEN SetItem(b, i, color) ELSE b

\* the while loop of __flip_direction
RECURSIVE FlipLoop(_, _, _, _)
FlipLoop(b, i, d, color) ==
  IF GetItem(b, i) # color
    THEN FlipLoop(SetItem(b, i, color), Add(i, d), d, color)
    ELSE b

FlipDirection(b, i, d, color) == FlipLoop(b, Add(i, d), d, color)

\* mutant: the loop over the directions ends after the first line it flips
RECURSIVE ReversiFrom_FirstOnly(_, _, _, _)
ReversiFrom_FirstOnly(b, i, color, k) ==
  IF k > Len(Directions) THEN b
  ELSE IF IsValidDirection(b, i, Directions[k], color)
    THEN FlipDirection(b, i, Directions[k], color)
    ELSE ReversiFrom_FirstOnly(b, i, color, k + 1)

\* __reversi: the directions are handled one after another on the board
\* that is being modified
RECURSIVE ReversiFrom(_, _, _, _)
ReversiFrom(b, i, color, k) ==
  IF k > Len(Directions) THEN b
  ELSE IF IsValidDirection(b, i, Directions[k], color)
    THEN ReversiFrom(FlipDirection(b, i, Directions[k], color), i, color, k + 1)
    ELSE ReversiFrom(b, i, color, k + 1)

Reversi(b, i, color) == ReversiFrom(b, i, color, 1)

\* one iteration of the for loop of __reversi, for direction d
DirectionStep(b, i, d, color) ==
  IF IsValidDirection(b, i, d, color) THEN FlipDirection(b, i, d, color) ELSE b

\* the for loop of __reversi with the list of directions cut down to those
\* in S (in the order of the source)
RECURSIVE ReversiOver(_, _, _, _, _)
ReversiOver(b, i, color, S, k) ==
  IF k > Len(Directions) THEN b
  ELSE IF Directions[k] \in S
    THEN ReversiOver(DirectionStep(b, i, Directions[k], color), i, color, S, k + 1)
    ELSE ReversiOver(b, i, color, S, k + 1)

\* mutant: the flips are made but the disc itself is never placed
MoveResult_SkipsTarget(b, c, color) ==
  LET v == IsValidMove(b, c, color) IN
    IF v.exc # "none" THEN [exc |-> v.exc, board |-> b]
    ELSE IF ~v.val THEN [exc |-> "ValueError", board |-> b]
    ELSE [exc |-> "none", board |-> Reversi(b, c, color)]

\* mutant: the target cell is written before the move is validated
MoveResult_SetsFirst(b, c, color) ==
  LET v == IsValidMove(b, c, color) IN
    IF v.exc # "none" THEN [exc |-> v.exc, board |-> b]
    ELSE IF ~v.val THEN [exc |-> "ValueError", board |-> SetItem(b, c, color)]
    ELSE [exc |-> "none", board |-> Reversi(SetItem(b, c, color), c, color)]

\* mutant: a rejected move is undone by clearing the target cell
MoveResult_RollsBack(b, c, color) ==
  LET v == IsValidMove(b, c, color) IN
    IF v.exc # "none" THEN [exc |-> v.exc, board |-> b]
    ELSE IF ~v.val THEN [exc |-> "ValueError", board |-> SetItem(b, c, None)]
    ELSE [exc |-> "none", board |-> Reversi(SetItem(b, c, color), c, color)]

\* Board.move as a function: the exception raised and the board afterwards
MoveResult(b, c, color) ==
  LET v == IsValidMove(b, c, color) IN
    IF v.exc # "none" THEN [exc |-> v.exc, board |-> b]
    ELSE IF ~v.val THEN [exc |-> "ValueError", board |-> b]
    ELSE [exc |-> "none", board |-> Reversi(SetItem(b, c, color), c, color)]

GetPlayerCounts(b) ==
  << Cardinality({c \in AllCells : b[c.x][c.y] = WHITE}),
     Cardinality({c \in AllCells : b[c.x][c.y] = BLACK}) >>

\* mutant: the game goes on only while both colours can move
GameOver_BothMustMove(b) ==
  LET counts == GetPlayerCounts(b) IN
    IF counts[1] + counts[2] = 64 THEN TRUE
    ELSE IF GetValidMoves(b, WHITE) # {} /\ GetValidMoves(b, BLACK) # {} THEN FALSE
    ELSE TRUE

GameOver(b) ==
  LET counts == GetPlayerCounts(b) IN
    IF counts[1] + counts[2] = 64 THEN TRUE
    ELSE IF GetValidMoves(b, WHITE) # {} \/ GetValidMoves(b, BLACK) # {} THEN FALSE
    ELSE TRUE

\* mutant: the majority colour is reported without asking game_over()
GetWinnner_IgnoresGameOver(b) ==
  LET counts == GetPlayerCounts(b) IN
    IF counts[1] > counts[2] THEN WHITE
    ELSE IF counts[1] < counts[2] THEN BLACK
    ELSE None

GetWinnner(b) ==
  IF ~GameOver(b) THEN None
  ELSE LET counts == GetPlayerCounts(b) IN
    IF counts[1] > counts[2] THEN WHITE
    ELSE IF counts[1] < counts[2] THEN BLACK
    ELSE None

\* ------------------------------------------------------------- AlphaBeta
Inf == 1000000       \* float("inf"): above every heuristic score

\* A call's result is [exc, ...]; `cls` is the class attribute Board.board
\* after the call: <<>> while it was never assigned, <<grid>> otherwise.

\* Board.from_board is a classmethod whose first parameter is the class:
\* line 45 assigns the class attribute Board.board, and line 48 subscripts
\* the class itself (Board[x]), which raises TypeError on the first cell.
\* Nothing is returned (ret = <<>> stands for None).
FromBoard(b, cls) ==
  [exc |-> "TypeError", ret |-> <<>>, cls |-> <<EmptyGrid>>]

\* __evaluate: board.get_winner (line 147) and board.get_player_counts
\* (line 192) are not attributes of Board (get_winnner and the private
\* __get_player_counts are), so both branches raise AttributeError.
Evaluate(b, agent) ==
  IF GameOver(b)
    THEN [exc |-> "AttributeError", val |-> 0]
    ELSE [exc |-> "AttributeError", val |-> 0]

\* the terms that __evaluate computes for a position that is not over,
\* before it reaches line 192
PositionalWeights ==
  << <<100, -20, 10, 5, 5, 10, -20, 100>>,
     <<-20, -50, -2, -2, -2, -2, -50, -20>>,
     <<10, -2, -1, -1, -1, -1, -2, 10>>,
     <<5, -2, -1, -1, -1, -1, -2, 5>>,
     <<5, -2, -1, -1, -1, -1, -2, 5>>,
     <<10, -2, -1, -1, -1, -1, -2, 10>>,
     <<-20, -50, -2, -2, -2, -2, -50, -20>>,
     <<100, -20, 10, 5, 5, 10, -20, 100>> >>

\* the sum of f over the 64 cells, in the order of the two range(8) loops
RECURSIVE SumCells(_, _)
SumCells(f, k) ==
  IF k = N * N THEN 0
  ELSE f[Coordinate(k \div N, k % N)] + SumCells(f, k + 1)

PieceDifference(b, agent) ==
  SumCells([c \in AllCells |->
              IF b[c.x][c.y] = None THEN 0
              ELSE IF b[c.x][c.y] = agent THEN 1 ELSE -1], 0)

MobilityDifference(b, agent) ==
  Cardinality(GetValidMoves(b, agent)) - Cardinality(GetValidMoves(b, Opponent(agent)))

PositionalScore(b, agent) ==
  SumCells([c \in AllCells |->
              IF b[c.x][c.y] = None THEN 0
              ELSE PositionalWeights[c.x + 1][c.y + 1]
                     * (IF b[c.x][c.y] = agent THEN 1 ELSE -1)], 0)

\* lines 193-198: two separate if statements, the second with the else, so
\* the weight 1 of the first is always overwritten
MobilityWeight(total_pieces) ==
  LET first == IF total_pieces < 12 THEN 1 ELSE 0 IN
    IF total_pieces < 56 THEN 2 ELSE 4

\* a score (or the exception) together with the class attribute
WithCls(e, cls) == [exc |-> e.exc, val |-> e.val, cls |-> cls]

\* __move_priority, after new_board = Board.from_board(board): nb is the
\* outcome of that call; its value None has no attribute move
MovePriorityOn(nb, m, color, agent) ==
  IF nb.exc # "none" THEN [exc |-> nb.exc, val |-> 0, cls |-> nb.cls]
  ELSE IF nb.ret = <<>> THEN [exc |-> "AttributeError", val |-> 0, cls |-> nb.cls]
  ELSE IF MoveResult(nb.ret[1], m, color).exc # "none"
    THEN [exc |-> MoveResult(nb.ret[1], m, color).exc, val |-> 0, cls |-> nb.cls]
  ELSE WithCls(Evaluate(MoveResult(nb.ret[1], m, color).board, agent), nb.cls)

\* __move_priority
MovePriority(m, b, cls, color, agent) ==
  MovePriorityOn(FromBoard(b, cls), m, color, agent)

\* sorted(moves, key=..., reverse=True): keys[m] is the outcome of the key
\* call for m.  sorted() computes every key before it orders the elements,
\* so an exception in a key ends the call; the empty set gives the empty
\* list without any key being computed.
SortedByKey(moves, keys, cls) ==
  IF moves = {} THEN [exc |-> "none", val |-> <<>>, cls |-> cls]
  ELSE IF \E m \in moves : keys[m].exc # "none"
    THEN LET m == CHOOSE m \in moves : keys[m].exc # "none"
         IN [exc |-> keys[m].exc, val |-> <<>>, cls |-> keys[m].cls]
    ELSE [exc |-> "none",
          val |-> CHOOSE s \in [1 .. Cardinality(moves) -> moves] :
                    /\ \A m \in moves : \E i \in DOMAIN s : s[i] = m
                    /\ \A i, j \in DOMAIN s : i < j => keys[s[i]].val >= keys[s[j]].val,
          cls |-> <<EmptyGrid>>]

\* __reorder_moves
ReorderMoves(moves, b, cls, color, agent) ==
  SortedByKey(moves, [m \in moves |-> MovePriority(m, b, cls, color, agent)], cls)

\* the body of the for loops of __alphabeta and of move, up to the first
\* statement that raises: nb is the outcome of Board.from_board(board); had
\* it returned, its value None has no attribute move.
ChildBoard(nb) ==
  IF nb.exc # "none" THEN [exc |-> nb.exc, cls |-> nb.cls]
  ELSE [exc |-> "AttributeError", cls |-> nb.cls]

\* the for loop of __alphabeta over the reordered moves pm
AlphaBetaLoop(pm, b, maximizing_player) ==
  IF pm.exc # "none" THEN [exc |-> pm.exc, val |-> 0, cls |-> pm.cls]
  ELSE IF pm.val = <<>>
    THEN [exc |-> "none",
          val |-> IF maximizing_player THEN 0 - Inf ELSE Inf,
          cls |-> pm.cls]
  ELSE [exc |-> ChildBoard(FromBoard(b, pm.cls)).exc, val |-> 0,
        cls |-> ChildBoard(FromBoard(b, pm.cls)).cls]

CurrentColor(maximizing_player, agent) ==
  IF maximizing_player THEN agent ELSE Opponent(agent)

\* __alphabeta
AlphaBeta(b, cls, depth, alpha, beta, maximizing_player, agent) ==
  IF depth = 0 \/ GameOver(b)
    THEN WithCls(Evaluate(b, agent), cls)
    ELSE AlphaBetaLoop(
           ReorderMoves(GetValidMoves(b, CurrentColor(maximizing_player, agent)),
                        b, cls, CurrentColor(maximizing_player, agent), agent),
           b, maximizing_player)

\* the for loop of AlphaBeta.move over the reordered moves pm: ret = {}
\* stands for None, {c} for the coordinate c; scored lists the candidates
\* whose score the loop has compared.
RootLoop(pm, b) ==
  IF pm.exc # "none"
    THEN [exc |-> pm.exc, ret |-> {}, scored |-> <<>>, cls |-> pm.cls]
  ELSE IF pm.val = <<>>
    THEN [exc |-> "none", ret |-> {}, scored |-> <<>>, cls |-> pm.cls]
  ELSE [exc |-> ChildBoard(FromBoard(b, pm.cls)).exc, ret |-> {}, scored |-> <<>>,
        cls |-> ChildBoard(FromBoard(b, pm.cls)).cls]

\* AlphaBeta.move
AgentMove(b, cls, agent, depth) ==
  RootLoop(ReorderMoves(GetValidMoves(b, agent), b, cls, agent, agent), b)

\* ------------------------------------------------------------ the game
PlayerTypes == {"USER", "ALPHA_BETA", "GREEDY", "RANDOM"}

\* __create_player gives the AlphaBeta agent this depth
AlphaBetaDepth == 3

\* player.move(board) of an agent of the given type and colour; s is the
\* line that input() returns to a User. ret is {} for None.
\* Greedy: None without a valid move, otherwise its first from_board raises.
\* Random: None without a valid move, otherwise random.choice subscripts
\* the set that get_valid_moves returned, which raises TypeError.
AgentOutcome(type, b, cls, color, s) ==
  IF type = "ALPHA_BETA"
    THEN [exc |-> AgentMove(b, cls, color, AlphaBetaDepth).exc,
          ret |-> AgentMove(b, cls, color, AlphaBetaDepth).ret,
          cls |-> AgentMove(b, cls, color, AlphaBetaDepth).cls]
  ELSE IF GetValidMoves(b, color) = {}
    THEN [exc |-> "none", ret |-> {}, cls |-> cls]
  ELSE IF type = "USER"
    THEN [exc |-> from_string(s).exc,
          ret |-> IF from_string(s).exc = "none" THEN {from_string(s).val} ELSE {},
          cls |-> cls]
  ELSE IF type = "GREEDY"
    THEN [exc |-> FromBoard(b, cls).exc, ret |-> {}, cls |-> FromBoard(b, cls).cls]
  ELSE [exc |-> "TypeError", ret |-> {}, cls |-> cls]

\* mutant: the loop goes on until the board is full
LoopGoesOn_UntilFull(b) == GetPlayerCounts(b)[1] + GetPlayerCounts(b)[2] < N * N

\* the condition of the while loop of Game.play
LoopGoesOn(b) == ~GameOver(b)

\* mutant: a pass leaves the turn with the colour that passed
PassTurn_Keeps(turn) == turn

\* the turn after a pass (move is None)
PassTurn(turn) == IF turn = BLACK THEN WHITE ELSE BLACK

\* the rest of one iteration of the loop of Game.play, the agent's move (or
\* its exception) being a: where the loop is afterwards, the board and the
\* turn, and the exception that was caught ("ValueError", reported and the
\* loop continued) or that left play() (pc = "crashed")
PlayStep(b, turn, a, r) ==
  IF a.exc # "none"
    THEN [pc |-> "crashed", exc |-> a.exc, board |-> b, turn |-> turn, applied |-> FALSE]
  ELSE IF a.ret = {}
    THEN [pc |-> "head", exc |-> "none", board |-> b, turn |-> PassTurn(turn),
          applied |-> FALSE]
  ELSE IF r.exc = "ValueError"
    THEN [pc |-> "head", exc |-> "ValueError", board |-> b, turn |-> turn,
          applied |-> FALSE]
  ELSE IF r.exc # "none"
    THEN [pc |-> "crashed", exc |-> r.exc, board |-> r.board, turn |-> turn,
          applied |-> FALSE]
  ELSE [pc |-> "head", exc |-> "none", board |-> r.board,
        turn |-> IF turn = BLACK THEN WHITE ELSE BLACK, applied |-> TRUE]

\* board.move(move, turn) for the move that the agent returned
MoveOf(b, turn, a) ==
  IF a.exc # "none" \/ a.ret = {} THEN [exc |-> "none", board |-> b]
  ELSE MoveResult(b, CHOOSE c \in a.ret : TRUE, turn)

\* ------------------------------------------------------------ the machine
\* no call is in progress; `last` holds the latest call and its outcome
Idle == [op |-> "idle", exc |-> "none"]

\* no Game object exists: the board is used on its own
NoGame == [pc |-> "none"]

Init ==
  /\ board = InitialBoard
  /\ start = InitialBoard
  /\ classBoard = <<>>
  /\ nmoves = 0
  /\ last = Idle
  /\ game = NoGame

\* Boards set up cell by cell through board[x][y] = value, as the tests do:
\* a filled, emptied or evenly split board with a few cells overwritten.
Fill(v) == [x \in Idx |-> [y \in Idx |-> v]]

SplitBoard == [x \in Idx |-> [y \in Idx |-> IF x < 4 THEN WHITE ELSE BLACK]]

BaseBoards == {Fill(WHITE), Fill(BLACK), Fill(None), SplitBoard}

PatchCells == {Coordinate(0, 3), Coordinate(2, 3), Coordinate(3, 3)}

Patched(b, patch) ==
  [x \in Idx |-> [y \in Idx |->
     IF Coordinate(x, y) \in PatchCells /\ patch[Coordinate(x, y)] # "keep"
       THEN patch[Coordinate(x, y)] ELSE b[x][y]]]

SetUpBoards ==
  {InitialBoard} \cup
  {Patched(b, patch) : b \in BaseBoards, patch \in [PatchCells -> Cell \cup {"keep"}]}

InitAny ==
  /\ board \in SetUpBoards
  /\ start = board
  /\ classBoard = <<>>
  /\ nmoves = 0
  /\ last = Idle
  /\ game = NoGame

\* board.move(c, color)
Move(c, color) ==
  /\ last = Idle
  /\ nmoves < MaxMoves
  /\ LET r == MoveResult(board, c, color) IN
       /\ board' = r.board
       /\ nmoves' = IF r.exc = "none" THEN nmoves + 1 ELSE nmoves
       /\ last' = [op |-> "move", exc |-> r.exc, c |-> c, color |-> color, pre |-> board]
  /\ UNCHANGED <<start, classBoard, game>>

\* board.get_valid_moves(color)
GetValidMovesCall(color) ==
  /\ last = Idle
  /\ last' = [op |-> "get_valid_moves", exc |-> "none", color |-> color,
              ret |-> GetValidMoves(board, color)]
  /\ UNCHANGED <<board, start, classBoard, nmoves, game>>

\* board.game_over()
GameOverCall ==
  /\ last = Idle
  /\ last' = [op |-> "game_over", exc |-> "none", ret |-> GameOver(board)]
  /\ UNCHANGED <<board, start, classBoard, nmoves, game>>

\* board.get_winnner()
GetWinnnerCall ==
  /\ last = Idle
  /\ last' = [op |-> "get_winnner", exc |-> "none", ret |-> GetWinnner(board)]
  /\ UNCHANGED <<board, start, classBoard, nmoves, game>>

\* Board.from_board(board)
FromBoardCall ==
  /\ last = Idle
  /\ LET r == FromBoard(board, classBoard) IN
       /\ last' = [op |-> "from_board", exc |-> r.exc, ret |-> r.ret]
       /\ classBoard' = r.cls
  /\ UNCHANGED <<board, start, nmoves, game>>

\* AlphaBeta(color, depth).move(board)
AlphaBetaMove(color, depth) ==
  /\ last = Idle
  /\ LET r == AgentMove(board, classBoard, color, depth) IN
       /\ last' = [op |-> "ab_move", exc |-> r.exc, color |-> color, depth |-> depth,
                   ret |-> r.ret, scored |-> r.scored]
       /\ classBoard' = r.cls
  /\ UNCHANGED <<board, start, nmoves, game>>

\* AlphaBeta(color, ...).__alphabeta(board, depth, -inf, +inf, maximizing_player)
AlphaBetaCall(agent, depth, maximizing_player) ==
  /\ last = Idle
  /\ LET r == AlphaBeta(board, classBoard, depth, 0 - Inf, Inf, maximizing_player, agent) IN
       /\ last' = [op |-> "alphabeta", exc |-> r.exc, color |-> agent, depth |-> depth,
                   maximizing |-> maximizing_player, val |-> r.val]
       /\ classBoard' = r.cls
  /\ UNCHANGED <<board, start, nmoves, game>>

\* AlphaBeta(color, depth).__evaluate(board)
EvaluateCall(agent) ==
  /\ last = Idle
  /\ last' = [op |-> "evaluate", exc |-> Evaluate(board, agent).exc, color |-> agent,
              val |-> Evaluate(board, agent).val]
  /\ UNCHANGED <<board, start, classBoard, nmoves, game>>

\* Coordinate.from_string(s)
FromStringCall(s) ==
  /\ last = Idle
  /\ last' = [op |-> "from_string", exc |-> from_string(s).exc, s |-> s,
              ret |-> from_string(s).val]
  /\ UNCHANGED <<board, start, classBoard, nmoves, game>>

\* Coordinate.to_string(c)
ToStringCall(c) ==
  /\ last = Idle
  /\ last' = [op |-> "to_string", exc |-> "none", c |-> c, ret |-> to_string(c)]
  /\ UNCHANGED <<board, start, classBoard, nmoves, game>>

\* board.move(s, color) with a string: the string is converted first
\* (an exception of the conversion leaves the board as it is)
MoveText(s, color) ==
  /\ last = Idle
  /\ nmoves < MaxMoves
  /\ IF from_string(s).exc # "none"
       THEN /\ last' = [op |-> "move_text", exc |-> from_string(s).exc, s |-> s,
                        color |-> color, pre |-> board]
            /\ UNCHANGED <<board, nmoves>>
       ELSE /\ board' = MoveResult(board, from_string(s).val, color).board
            /\ nmoves' = IF MoveResult(board, from_string(s).val, color).exc = "none"
                           THEN nmoves + 1 ELSE nmoves
            /\ last' = [op |-> "move_text",
                        exc |-> MoveResult(board, from_string(s).val, color).exc,
                        s |-> s, color |-> color, pre |-> board]
  /\ UNCHANGED <<start, classBoard, game>>

\* control is back in the caller, after a normal return or in its except
\* clause; the next call is made from there
Return ==
  /\ last # Idle
  /\ last' = Idle
  /\ UNCHANGED <<board, start, classBoard, nmoves, game>>

Next ==
  \/ \E c \in Coords, color \in Colors : Move(c, color)
  \/ \E color \in Colors : GetValidMovesCall(color)
  \/ GameOverCall
  \/ GetWinnnerCall
  \/ FromBoardCall
  \/ \E color \in Colors, depth \in 0 .. MaxDepth : AlphaBetaMove(color, depth)
  \/ \E color \in Colors : EvaluateCall(color)
  \/ \E color \in Colors, depth \in 0 .. MaxDepth, mp \in BOOLEAN :
       AlphaBetaCall(color, depth, mp)
  \/ Return

Spec == Init /\ [][Next]_vars

SpecAny == InitAny /\ [][Next]_vars

\* Game(player1_type, player2_type) on a set-up board: BLACK, player1,
\* is to move. passes counts the passes made in a row (2 stands for more).
GameInit ==
  /\ board \in SetUpBoards
  /\ start = board
  /\ classBoard = <<>>
  /\ nmoves = 0
  /\ last = Idle
  /\ \E p1, p2 \in PlayerTypes :
       game = [pc |-> "head", turn |-> BLACK, player |-> [B |-> p1, W |-> p2],
               passes |-> 0]

\* the test of the while loop of play()
LoopTest ==
  /\ game.pc = "head"
  /\ last' = [op |-> "game_over", exc |-> "none", ret |-> GameOver(board)]
  /\ game' = [game EXCEPT !.pc = IF LoopGoesOn(board) THEN "body" ELSE "done"]
  /\ UNCHANGED <<board, start, classBoard, nmoves>>

\* one iteration of the loop, from the agent's move to the continue or to
\* the end of the body
TurnStep(a, st) ==
  /\ board' = st.board
  /\ nmoves' = IF st.applied THEN nmoves + 1 ELSE nmoves
  /\ classBoard' = a.cls
  /\ last' = [op |-> "turn", exc |-> st.exc, color |-> game.turn, move |-> a.ret,
              pre |-> board]
  /\ game' = [game EXCEPT !.pc = st.pc, !.turn = st.turn,
                          !.passes = IF a.exc = "none" /\ a.ret = {}
                                       THEN (IF game.passes < 2 THEN game.passes + 1 ELSE 2)
                                       ELSE 0]
  /\ UNCHANGED start

TurnOf(a) == TurnStep(a, PlayStep(board, game.turn, a, MoveOf(board, game.turn, a)))

\* an iteration in which a User is to move: s is the line read by input()
UserTurn(s) ==
  /\ game.pc = "body"
  /\ game.player[game.turn] = "USER"
  /\ nmoves < MaxMoves
  /\ TurnOf(AgentOutcome("USER", board, classBoard, game.turn, s))

\* an iteration in which a computer agent is to move (it reads no input)
AgentTurn ==
  /\ game.pc = "body"
  /\ game.player[game.turn] # "USER"
  /\ nmoves < MaxMoves
  /\ TurnOf(AgentOutcome(game.player[game.turn], board, classBoard, game.turn, <<>>))

GameNext ==
  \/ LoopTest
  \/ \E s \in Strings : UserTurn(s)
  \/ AgentTurn

GameSpec == GameInit /\ [][GameNext]_vars

\* A game between ideal agents: an agent returns one of the valid moves of
\* its colour when there is one and None when there is none. The games
\* start near the end, on full boards of which five cells (b4 .. f4) are set
\* up in every way, so that every game is played to its end.
EndgameCells == {Coordinate(x, 3) : x \in 1 .. 5}

IdealBoards ==
  {[x \in Idx |-> [y \in Idx |->
      IF Coordinate(x, y) \in EndgameCells THEN f[Coordinate(x, y)] ELSE b[x][y]]] :
    b \in {Fill(WHITE), Fill(BLACK), SplitBoard}, f \in [EndgameCells -> Cell]}

IdealInit ==
  /\ board \in IdealBoards
  /\ start = board
  /\ classBoard = <<>>
  /\ nmoves = 0
  /\ last = Idle
  /\ game = [pc |-> "head", turn |-> BLACK, player |-> [B |-> "IDEAL", W |-> "IDEAL"],
             passes |-> 0]

\* the move (or None) that an ideal agent may return
IdealMoves(valid) == IF valid = {} THEN {{}} ELSE {{m} : m \in valid}

\* an iteration in which an ideal agent is to move
IdealTurn ==
  /\ game.pc = "body"
  /\ \E ret \in IdealMoves(GetValidMoves(board, game.turn)) :
       TurnOf([exc |-> "none", ret |-> ret, cls |-> classBoard])

IdealNext ==
  \/ LoopTest
  \/ IdealTurn

\* the loop of play() keeps running and the agents answer
IdealSpec == IdealInit /\ [][IdealNext]_vars /\ WF_vars(IdealNext)

\* the textual form of coordinates, and moves given as text
NextText ==
  \/ \E s \in Strings : FromStringCall(s)
  \/ \E c \in Coords : ToStringCall(c)
  \/ \E s \in Strings, color \in Colors : MoveText(s, color)
  \/ Return

SpecText == Init /\ [][NextText]_vars

\* ------------------------------------------------- the rules, stated apart
\* The rule of the game written without the scan loops: a capturing line of
\* length n from c along d is n opponent discs followed by an own disc, all
\* inside the board.
Step(c, d, k) == Coordinate(c.x + k * d.x, c.y + k * d.y)

Compass == {Coordinate(dx, dy) : dx \in -1 .. 1, dy \in -1 .. 1} \ {Coordinate(0, 0)}

At(b, c) == b[c.x][c.y]

CapturingLine(b, c, d, color, n) ==
  /\ IsInBounds(Step(c, d, 1))
  /\ At(b, Step(c, d, 1)) = Opponent(color)
  /\ IsInBounds(Step(c, d, n + 1))
  /\ At(b, Step(c, d, n + 1)) = color
  /\ \A k \in 2 .. n : At(b, Step(c, d, k)) = Opponent(color)

Legal(b, c, color) ==
  /\ At(b, c) = None
  /\ \E d \in Compass : \E n \in 1 .. (N - 2) : CapturingLine(b, c, d, color, n)

Captured(b, c, color) ==
  {e \in AllCells : \E d \in Compass : \E n \in 1 .. (N - 2) :
     /\ CapturingLine(b, c, d, color, n)
     /\ \E k \in 1 .. n : e = Step(c, d, k)}

Count(b, v) == Cardinality({c \in AllCells : At(b, c) = v})

Accepted == last.op = "move" /\ last.exc = "none"

\* ---------------------------------------------------------------- claims
TypeOK ==
  /\ \A c \in AllCells : At(board, c) \in Cell /\ At(start, c) \in Cell
  /\ nmoves \in 0 .. MaxMoves
  /\ classBoard \in {<<>>, <<EmptyGrid>>}

\* C1: for every in-range coordinate and colour the legality test is true
\* iff the cell is empty and some compass direction is a capturing line;
\* get_valid_moves(col) is exactly the set of such coordinates, and
\* Board.move accepts an in-range move iff it is legal in that sense.
C1_LegalityIsTheRule ==
  /\ last.op = "get_valid_moves" =>
       /\ \A c \in AllCells :
            /\ IsValidMove(board, c, last.color).exc = "none"
            /\ IsValidMove(board, c, last.color).val <=> Legal(board, c, last.color)
       /\ last.ret = {c \in AllCells : Legal(board, c, last.color)}
  /\ (last.op = "move" /\ IsInBounds(last.c)) =>
       (last.exc = "none" <=> Legal(last.pre, last.c, last.color))

\* get_valid_moves returned a move that captures along a line of two or more
\* discs, and left out an empty cell that has an opponent disc next to it
C1_Witness ==
  /\ last.op = "get_valid_moves"
  /\ \E c \in last.ret : \E d \in Compass : \E n \in 2 .. (N - 2) :
       CapturingLine(board, c, d, last.color, n)
  /\ \E c \in AllCells \ last.ret :
       /\ At(board, c) = None
       /\ \E d \in Compass :
            IsInBounds(Step(c, d, 1)) /\ At(board, Step(c, d, 1)) = Opponent(last.color)

\* C2: an accepted move changes exactly the target cell and the opponent
\* discs of every capturing line of the board before the move, all of them
\* to the mover's colour (whatever moves coloured them before).
C2_MoveFlipsExactlyTheLines ==
  Accepted =>
    LET flipped == Captured(last.pre, last.c, last.color) IN
      \A e \in AllCells :
        At(board, e) = IF e = last.c \/ e \in flipped
                         THEN last.color
                         ELSE At(last.pre, e)

\* a disc that an earlier move had flipped is flipped back by this move
C2_Witness ==
  /\ Accepted
  /\ \E e \in AllCells :
       /\ At(start, e) # None
       /\ At(last.pre, e) # At(start, e)
       /\ At(board, e) = At(start, e)
       /\ e \in Captured(last.pre, last.c, last.color)

\* C3: Board.move at an in-range coordinate that is not a legal move (cell
\* occupied, or no capturing line) raises ValueError and leaves every cell
\* as it was.
C3_RejectedMoveChangesNothing ==
  (last.op = "move" /\ IsInBounds(last.c) /\ ~Legal(last.pre, last.c, last.color)) =>
    /\ last.exc = "ValueError"
    /\ board = last.pre

\* a move onto an occupied cell was rejected
C3_Witness ==
  /\ last.op = "move"
  /\ last.exc = "ValueError"
  /\ IsInBounds(last.c)
  /\ At(last.pre, last.c) # None
  /\ nmoves > 0

\* C4: game_over() is true iff all 64 cells are occupied or neither colour
\* has a valid move; the initial board is not over and the board without
\* discs is.
C4_GameOverIffFullOrStuck ==
  /\ last.op = "game_over" =>
       (last.ret <=>
          \/ \A c \in AllCells : At(board, c) # None
          \/ GetValidMoves(board, WHITE) = {} /\ GetValidMoves(board, BLACK) = {})
  /\ (last.op = "game_over" /\ board = InitialBoard) => ~last.ret
  /\ (last.op = "game_over" /\ board = EmptyGrid) => last.ret

\* game_over() answered false on a board where exactly one colour can move
C4_Witness ==
  /\ last.op = "game_over"
  /\ ~last.ret
  /\ (GetValidMoves(board, WHITE) = {}) # (GetValidMoves(board, BLACK) = {})

\* C5: get_winnner() is the colour with strictly more discs when the game
\* is over, None on equal counts, and None whenever the game is not over.
C5_WinnerIsStrictMajority ==
  last.op = "get_winnner" =>
    last.ret = IF ~GameOver(board) THEN None
               ELSE IF Count(board, WHITE) > Count(board, BLACK) THEN WHITE
               ELSE IF Count(board, BLACK) > Count(board, WHITE) THEN BLACK
               ELSE None

\* get_winnner() answered None on a board that is not over although one
\* colour has more discs
C5_Witness ==
  /\ last.op = "get_winnner"
  /\ last.ret = None
  /\ ~GameOver(board)
  /\ Count(board, WHITE) # Count(board, BLACK)

\* C6: over any sequence of Board.move calls from the initial board, accepted
\* or rejected, an occupied cell never becomes empty again.
C6_OccupiedStaysOccupied ==
  [][\A c \in AllCells : At(board, c) # None => At(board', c) # None]_vars

\* a rejected move onto an occupied cell, after an accepted move that
\* flipped a disc
C6_Witness ==
  /\ last.op = "move"
  /\ last.exc = "ValueError"
  /\ IsInBounds(last.c)
  /\ At(board, last.c) # None
  /\ At(board, last.c) # At(start, last.c)
  /\ At(start, last.c) # None

\* C7: AlphaBeta.move returns None iff the agent's colour has no valid move,
\* and otherwise returns one of the valid moves.
C7_AgentReturnsALegalMove ==
  last.op = "ab_move" =>
    LET valid == GetValidMoves(board, last.color) IN
      /\ last.exc = "none"
      /\ last.ret = {} <=> valid = {}
      /\ last.ret \subseteq valid

\* C8: every root candidate m is scored by searching the position that
\* results from applying m for the agent's colour to the given board.
C8_RootScoresTheResultingPosition ==
  last.op = "ab_move" =>
    \A m \in GetValidMoves(board, last.color) :
      \E i \in DOMAIN last.scored :
        /\ last.scored[i].move = m
        /\ last.scored[i].searched = MoveResult(board, m, last.color).board

\* C9: AlphaBeta.move returns the candidate with the best score, the maximum
\* for WHITE and the minimum for BLACK, and the first such candidate in the
\* reordered order.
C9_AgentReturnsTheBestCandidate ==
  (last.op = "ab_move" /\ GetValidMoves(board, last.color) # {}) =>
    \E i \in DOMAIN last.scored :
      /\ last.ret = {last.scored[i].move}
      /\ \A j \in DOMAIN last.scored :
           IF last.color = WHITE
             THEN /\ last.scored[j].score <= last.scored[i].score
                  /\ j < i => last.scored[j].score < last.scored[i].score
             ELSE /\ last.scored[j].score >= last.scored[i].score
                  /\ j < i => last.scored[j].score > last.scored[i].score

\* C10: Board.from_board gives a copy equal to its source cell for cell, and
\* the copies made during a search share no state: nothing is kept on the
\* class, and no copy fails.
C10_SearchWorksOnIndependentCopies ==
  /\ last.op = "from_board" => (last.exc = "none" /\ last.ret = <<board>>)
  /\ last.op = "ab_move" => last.exc # "TypeError"
  /\ classBoard = <<>>

\* C16: to_string(from_string(s)) = s for every s in [a-h][1-8], and
\* from_string(to_string(c)) = c for every coordinate of the board; the
\* letter gives x and the digit y, "a1" being (0,0) and "h8" (7,7).
C16_TextRoundTrip ==
  /\ (last.op = "from_string" /\ last.s[1] \in OrdA .. (OrdA + 7)
        /\ last.s[2] \in (Ord0 + 1) .. (Ord0 + 8)) =>
       /\ last.exc = "none"
       /\ last.ret = Coordinate(last.s[1] - 97, last.s[2] - 49)
       /\ to_string(last.ret) = last.s
  /\ (last.op = "to_string" /\ IsInBounds(last.c)) =>
       /\ Len(last.ret) = 2
       /\ from_string(last.ret).exc = "none"
       /\ from_string(last.ret).val = last.c
  /\ from_string(<<97, 49>>).val = Coordinate(0, 0)
  /\ from_string(<<104, 56>>).val = Coordinate(7, 7)

\* from_string was applied to "h8"
C16_Witness ==
  /\ last.op = "from_string"
  /\ last.s = <<104, 56>>
  /\ last.ret = Coordinate(7, 7)

\* C11: bounds are checked before any cell is dereferenced: a move to a
\* coordinate with a component outside 0..7 is tested not legal and fails
\* with the invalid-move error (ValueError), no cell having been read or
\* written.
C11_BoundsCheckedBeforeAnyCell ==
  (last.op = "move" /\ ~IsInBounds(last.c)) =>
     /\ last.exc = "ValueError"
     /\ board = last.pre
     /\ FirstRead(last.c) = {}
     /\ IsValidMove(last.pre, last.c, last.color) = [exc |-> "none", val |-> FALSE]

\* the number of discs of the other colour that the accepted move turned
Flipped ==
  Cardinality({c \in AllCells : /\ c # last.c
                                /\ At(last.pre, c) = Opponent(last.color)
                                /\ At(board, c) = last.color})

\* C14 as stated: a legal move increases the total number of discs
\* (white + black) by exactly 1 plus the number of discs flipped.
C14_TotalRisesByOnePlusFlips ==
  Accepted =>
    Count(board, WHITE) + Count(board, BLACK) =
      Count(last.pre, WHITE) + Count(last.pre, BLACK) + 1 + Flipped

\* C14: for every legal move on a board reached from the initial position,
\* Board.move increases the total number of discs by exactly 1 and the
\* mover's count by exactly 1 plus the number of discs flipped, the
\* opponent's count falls by that number, at least one disc is flipped, and
\* every cell that changed, the target apart, held the opponent's colour and
\* now holds the mover's.
C14_MoverGainsOnePlusFlips ==
  Accepted =>
    /\ Count(board, WHITE) + Count(board, BLACK) =
         Count(last.pre, WHITE) + Count(last.pre, BLACK) + 1
    /\ Count(board, last.color) = Count(last.pre, last.color) + 1 + Flipped
    /\ Count(board, Opponent(last.color)) =
         Count(last.pre, Opponent(last.color)) - Flipped
    /\ Flipped >= 1
    /\ GetPlayerCounts(board) = <<Count(board, WHITE), Count(board, BLACK)>>
    /\ \A c \in AllCells :
         (c # last.c /\ At(board, c) # At(last.pre, c)) =>
            /\ At(last.pre, c) = Opponent(last.color)
            /\ At(board, c) = last.color

\* a second move was accepted and turned a disc
C14_Witness ==
  /\ Accepted
  /\ nmoves = 2
  /\ Flipped >= 1
  /\ Count(board, WHITE) + Count(board, BLACK) = 6

\* the position of Board(): d4 and e5 BLACK, d5 and e4 WHITE, all else empty
StartPosition(b) ==
  \A c \in AllCells :
    At(b, c) = IF c \in {Coordinate(3, 3), Coordinate(4, 4)} THEN BLACK
               ELSE IF c \in {Coordinate(3, 4), Coordinate(4, 3)} THEN WHITE
               ELSE None

\* C15: on the initial board the valid moves of WHITE are {d3, e6, f5, c4}
\* and those of BLACK are {d6, e3, f4, c5}.
C15_InitialValidMoves ==
  /\ nmoves = 0 => StartPosition(board)
  /\ (last.op = "get_valid_moves" /\ nmoves = 0) =>
       last.ret = IF last.color = WHITE
                    THEN {Coordinate(3, 2), Coordinate(4, 5),
                          Coordinate(5, 4), Coordinate(2, 3)}
                    ELSE {Coordinate(3, 5), Coordinate(4, 2),
                          Coordinate(5, 3), Coordinate(2, 4)}
  /\ from_string(<<100, 51>>).val = Coordinate(3, 2)
  /\ from_string(<<101, 54>>).val = Coordinate(4, 5)
  /\ from_string(<<102, 53>>).val = Coordinate(5, 4)
  /\ from_string(<<99, 52>>).val = Coordinate(2, 3)
  /\ from_string(<<100, 54>>).val = Coordinate(3, 5)
  /\ from_string(<<101, 51>>).val = Coordinate(4, 2)
  /\ from_string(<<102, 52>>).val = Coordinate(5, 3)
  /\ from_string(<<99, 53>>).val = Coordinate(2, 4)

\* get_valid_moves(WHITE) was called on the initial board
C15_Witness ==
  /\ last.op = "get_valid_moves"
  /\ last.color = WHITE
  /\ nmoves = 0
  /\ StartPosition(board)
  /\ Cardinality(last.ret) = 4

\* the number of discs on the board
TotalDiscs == Count(board, WHITE) + Count(board, BLACK)

\* C19: the static evaluation of a position that is not over is
\* 10 * piece difference + weight * mobility difference + positional score,
\* the weight being 1 with fewer than 12 discs on the board, 2 with fewer
\* than 56 (and not fewer than 12), and 4 otherwise.
C19_EvaluationIsTheWeightedSum ==
  (last.op = "evaluate" /\ ~GameOver(board)) =>
     /\ MobilityWeight(TotalDiscs) =
          IF TotalDiscs < 12 THEN 1 ELSE IF TotalDiscs < 56 THEN 2 ELSE 4
     /\ last.exc = "none"
     /\ last.val = 10 * PieceDifference(board, last.color)
                   + MobilityWeight(TotalDiscs) * MobilityDifference(board, last.color)
                   + PositionalScore(board, last.color)

\* C17: for a fixed board, depth and colour any two invocations of
\* AlphaBeta.move return the same coordinate, whatever an earlier invocation
\* left behind on the class: the invocation made returns a coordinate c, and
\* so does an invocation with nothing left behind and one made after an
\* earlier from_board.
C17_AgentMoveIsDeterministic ==
  (last.op = "ab_move" /\ GetValidMoves(board, last.color) # {}) =>
    \E c \in AllCells :
      /\ last.ret = {c}
      /\ AgentMove(board, <<>>, last.color, last.depth).ret = {c}
      /\ AgentMove(board, <<EmptyGrid>>, last.color, last.depth).ret = {c}
      /\ AgentMove(board, <<board>>, last.color, last.depth).ret = {c}

\* the static evaluation, for the agent, of the position after its move m
OnePly(b, m, agent) ==
  10 * PieceDifference(MoveResult(b, m, agent).board, agent)
  + MobilityWeight(Count(b, WHITE) + Count(b, BLACK) + 1)
      * MobilityDifference(MoveResult(b, m, agent).board, agent)
  + PositionalScore(MoveResult(b, m, agent).board, agent)

\* C18: with depth 0 AlphaBeta.move returns a legal move whose one-ply
\* static evaluation is maximal among the legal moves of the agent's
\* colour, for WHITE and for BLACK.
C18_DepthZeroIsGreedy ==
  (last.op = "ab_move" /\ last.depth = 0 /\ GetValidMoves(board, last.color) # {}) =>
    \E m \in GetValidMoves(board, last.color) :
      /\ last.exc = "none"
      /\ last.ret = {m}
      /\ \A o \in GetValidMoves(board, last.color) :
           OnePly(board, o, last.color) <= OnePly(board, m, last.color)

\* the iteration just made ended with the agent's move m
Returned(m) == last.op = "turn" /\ last.move = {m}

\* C12: when the agent returns a move that is not legal for the turn colour
\* (occupied cell, no capture, or a coordinate outside the board), the error
\* is reported (the ValueError is caught), board and turn are unchanged, and
\* the loop continues with the same colour to move.
C12_IllegalMoveIsReportedAndRetried ==
  \A m \in Coords :
    (Returned(m) /\ ~(IsInBounds(m) /\ Legal(last.pre, m, last.color))) =>
       /\ last.exc = "ValueError"
       /\ board = last.pre
       /\ game.turn = last.color
       /\ game.pc = "head"

\* one step of the game obeys the turn rules
TurnRules ==
  /\ board' # board =>
       /\ game.pc = "body"
       /\ game'.turn = Opponent(game.turn)
       /\ \E m \in last'.move :
            /\ IsInBounds(m)
            /\ Legal(board, m, game.turn)
            /\ At(board', m) = game.turn
            /\ {c \in AllCells : At(board', c) # At(board, c)} =
                 {m} \cup Captured(board, m, game.turn)
            /\ \A c \in Captured(board, m, game.turn) : At(board', c) = game.turn
  /\ (game.pc = "body" /\ game'.pc = "head" /\ last'.move = {}) =>
       /\ game'.turn = Opponent(game.turn)
       /\ board' = board
  /\ game'.turn # game.turn =>
       /\ game.pc = "body"
       /\ board' # board \/ last'.move = {}
  /\ game.pc = "head" => (game'.pc = "done" <=> GameOver(board))
  /\ game'.pc = "done" => (game.pc = "head" /\ GameOver(board))
  /\ game.pc = "done" => game'.pc = "done"

\* C13: BLACK moves first; after each applied move the turn passes to the
\* other colour; when the agent returns None the turn passes and the board
\* is unchanged; a move is only applied with the colour whose turn it is;
\* the loop exits exactly when game_over() is true.
C13_TurnsAlternate ==
  /\ game.turn = BLACK
  /\ [][TurnRules]_vars

\* BLACK passed (its agent returned None), the board is as it was, and
\* WHITE is to move
C13_Witness ==
  /\ last.op = "turn"
  /\ last.exc = "none"
  /\ last.move = {}
  /\ last.color = BLACK
  /\ game.turn = WHITE
  /\ game.pc = "head"
  /\ board = last.pre
  /\ ~GameOver(board)

\* what holds at every point of a game between ideal agents
IdealGameInv ==
  /\ game.pc \in {"head", "body", "done"}
  /\ game.passes <= 1
  /\ nmoves = Count(start, None) - Count(board, None)
  /\ nmoves <= N * N - 4
  /\ game.pc = "done" => GameOver(board)

\* C20: a game between ideal agents always terminates with game_over()
\* true; every applied move fills one empty cell and none is ever emptied,
\* so that at most 60 moves are applied to the 4 discs of Board(); and there
\* are never two passes in a row.
C20_IdealGameTerminates ==
  /\ []IdealGameInv
  /\ <>(game.pc = "done")

\* a game ended, neither colour being able to move, after four applied
\* moves with an empty cell left
C20_Witness ==
  /\ game.pc = "done"
  /\ nmoves = 4
  /\ GameOver(board)
  /\ Count(board, None) >= 1

\* the board of the accepted move after self[coordinate] = color and before
\* any direction is handled
Placed == SetItem(last.pre, last.c, last.color)

\* the directions that are flipped when handled first
FlippedFirst ==
  {d \in Compass : IsValidDirection(Placed, last.c, d, last.color)}

\* C21: the outcome of Board.move equals flipping at once every capturing
\* line determined on the board before the move, and is the same for every
\* order of the eight directions: whatever set S of flipped directions has
\* been handled already, handling a further direction d gives the board
\* that the loop over S and d gives in the order of the source, and d is
\* flipped then iff it is a capturing line of the board before the move;
\* so, by induction on the number of directions handled, every order of
\* the eight directions flips the same lines and ends on the same board.
C21_DirectionsAreIndependent ==
  Accepted =>
    /\ board = ReversiOver(Placed, last.c, last.color, Compass, 1)
    /\ {e \in AllCells : At(board, e) # At(last.pre, e)}
         = {last.c} \cup Captured(last.pre, last.c, last.color)
    /\ \A e \in AllCells : At(board, e) # At(last.pre, e) => At(board, e) = last.color
    /\ \A S \in SUBSET FlippedFirst : \A d \in Compass \ S :
         /\ DirectionStep(ReversiOver(Placed, last.c, last.color, S, 1),
                          last.c, d, last.color)
              = ReversiOver(Placed, last.c, last.color, S \cup {d}, 1)
         /\ IsValidDirection(ReversiOver(Placed, last.c, last.color, S, 1),
                             last.c, d, last.color)
              <=> \E n \in 1 .. (N - 2) : CapturingLine(last.pre, last.c, d, last.color, n)

\* a move was accepted that captured along two directions or more, one of
\* the lines being two discs long or longer
C21_Witness ==
  /\ Accepted
  /\ Cardinality({d \in Compass :
        \E n \in 1 .. (N - 2) : CapturingLine(last.pre, last.c, d, last.color, n)}) >= 2
  /\ \E d \in Compass : \E n \in 2 .. (N - 2) :
        CapturingLine(last.pre, last.c, d, last.color, n)

\* the static evaluation of a position for the agent, as the evaluator is
\* described: the outcome of a finished game, otherwise the weighted sum
StaticValue(b, agent) ==
  IF GameOver(b)
    THEN IF Count(b, agent) > Count(b, Opponent(agent)) THEN Inf
         ELSE IF Count(b, agent) < Count(b, Opponent(agent)) THEN 0 - Inf
         ELSE 0
    ELSE 10 * PieceDifference(b, agent)
         + (IF Count(b, WHITE) + Count(b, BLACK) < 12 THEN 1
            ELSE IF Count(b, WHITE) + Count(b, BLACK) < 56 THEN 2 ELSE 4)
             * MobilityDifference(b, agent)
         + PositionalScore(b, agent)

\* the greatest and the least member of a finite set of integers
Greatest(V) == CHOOSE v \in V : \A w \in V : w <= v
Least(V) == CHOOSE v \in V : \A w \in V : v <= w

\* plain minimax without pruning over the tree of the search: the same
\* terminal test, the agent maximising and the opponent minimising
RECURSIVE Minimax(_, _, _, _)
Minimax(b, depth, maximizing_player, agent) ==
  IF depth = 0 \/ GameOver(b) THEN StaticValue(b, agent)
  ELSE LET color == IF maximizing_player THEN agent ELSE Opponent(agent)
           vals == {Minimax(MoveResult(b, m, color).board, depth - 1,
                            ~maximizing_player, agent) :
                      m \in {c \in AllCells : Legal(b, c, color)}}
       IN IF maximizing_player THEN Greatest(vals \cup {0 - Inf})
                               ELSE Least(vals \cup {Inf})

\* C22: for every board, depth and side to move, __alphabeta called with
\* the full window returns the value of plain minimax without pruning over
\* the same tree.
C22_AlphaBetaEqualsMinimax ==
  last.op = "alphabeta" =>
    /\ last.exc = "none"
    /\ last.val = Minimax(board, last.depth, last.maximizing, last.color)

\* the positions of the subtree that a search of the given depth explores
RECURSIVE Subtree(_, _, _, _)
Subtree(b, depth, maximizing_player, agent) ==
  IF depth = 0 \/ GameOver(b) THEN {b}
  ELSE LET color == IF maximizing_player THEN agent ELSE Opponent(agent) IN
    {b} \cup UNION {Subtree(MoveResult(b, m, color).board, depth - 1,
                            ~maximizing_player, agent) :
                      m \in {c \in AllCells : Legal(b, c, color)}}

\* C23: every value returned by __alphabeta is the static evaluation of a
\* position of the explored subtree, also at a node with depth > 0 that is
\* not over and whose side to move has no legal move; +infinity or
\* -infinity is returned only when a finished game won by the agent or by
\* the opponent is reached.
C23_ReturnedValueIsAnEvaluation ==
  (last.op = "alphabeta" /\ last.exc = "none") =>
    \E p \in Subtree(board, last.depth, last.maximizing, last.color) :
      /\ last.val = StaticValue(p, last.color)
      /\ last.val \in {Inf, 0 - Inf} =>
           /\ GameOver(p)
           /\ GetWinnner(p) = IF last.val = Inf THEN last.color
                              ELSE Opponent(last.color)
====
